---- MODULE Spec2Model ----
(***************************************************************************)
(* Moving Cost Estimator (src/src/App.tsx).                                *)
(*                                                                         *)
(* The App component keeps one record of form values in React state and    *)
(* recomputes the cost breakdown from it on every render.                  *)
(*                                                                         *)
(* JavaScript numbers are modelled in fixed point, as integers counting    *)
(* hundredths: every factor of the source (1.0, 1.4, 1.9, 2.6, 2, 0.75,    *)
(* 0.8, 1.3) is a multiple of 0.01, and every product the source forms is  *)
(* a multiple of 0.01 as well, so the arithmetic below is exact.  The      *)
(* IEEE-754 products of the source differ from the exact ones by far less  *)
(* than the distance of any exact product to the next rounding boundary,   *)
(* except when the exact product is k + 0.5; there the double product is   *)
(* exactly k + 0.5 too (0.75 is a double; 1.3 * t rounds to k + 0.5 for    *)
(* |t| < 2^50), so Math.round sees the same value.                         *)
(*                                                                         *)
(* Strings the user types are sequences of one-character strings.          *)
(***************************************************************************)
EXTENDS Integers, Sequences, FiniteSets, TLC

VARIABLES values, rendered, distanceText

vars == <<values, rendered, distanceText>>

----------------------------------------------------------------------------
(* Bounds of the model *)

\* longest text a distance change event carries
MaxTextLen == 4

\* largest distance the number input declares (max="3000")
MaxDistance == 3000

\* characters a distance change event's text is made of
Chars == {"-", "0", "5"}

RECURSIVE TextsOfLen(_)
TextsOfLen(n) ==
    IF n = 0 THEN {<<>>}
    ELSE {Append(t, c) : t \in TextsOfLen(n - 1), c \in Chars}

Texts == UNION {TextsOfLen(n) : n \in 0..MaxTextLen}

HomeSizes == {"studio", "1br", "2br", "3br"}
MoveTypes == {"local", "longDistance"}

----------------------------------------------------------------------------
(* JavaScript numbers, in hundredths *)

\* an integer literal of the source
Num(n) == n * 100

\* a * b
Times(a, b) == (a * b) \div 100

\* Math.round(x): the integer nearest to x, a tie going towards +infinity
\* (variant: Math.floor in place of Math.round)
MathRoundFloor(x) == x \div 100
MathRound(x) == (x + 50) \div 100

----------------------------------------------------------------------------
(* parseInt(text) || 0 *)

Digits == {"0", "1", "2", "3", "4", "5", "6", "7", "8", "9"}

DigitValue(c) ==
    CASE c = "0" -> 0 [] c = "1" -> 1 [] c = "2" -> 2 [] c = "3" -> 3
      [] c = "4" -> 4 [] c = "5" -> 5 [] c = "6" -> 6 [] c = "7" -> 7
      [] c = "8" -> 8 [] c = "9" -> 9

\* the value of the longest run of decimal digits of s that starts at
\* position first, read from position i on, acc being the value read so far
RECURSIVE ParseDigits(_, _, _, _)
ParseDigits(s, first, i, acc) ==
    IF i <= Len(s) /\ s[i] \in Digits
    THEN ParseDigits(s, first, i + 1, acc * 10 + DigitValue(s[i]))
    ELSE [nan |-> i = first, n |-> acc]

\* parseInt(text): an optional sign, then the longest prefix of digits;
\* NaN when there is no digit.  The result is [nan, n]: NaN, or the number n.
parseInt(text) ==
    LET negative == text # <<>> /\ text[1] = "-"
        first    == IF negative THEN 2 ELSE 1
        parsed   == ParseDigits(text, first, first, 0)
    IN  [nan |-> parsed.nan, n |-> IF negative THEN -parsed.n ELSE parsed.n]

\* x || 0: x unless x is falsy (NaN, 0 or -0)
\* (variant: || 1, the input's declared minimum, in place of || 0)
OrOne(x) == IF x.nan \/ x.n = 0 THEN 1 ELSE x.n
\* (variant: the result clamped to the input's declared minimum)
OrZeroClamped(x) == IF x.nan \/ x.n < 1 THEN 1 ELSE x.n
OrZero(x) == IF x.nan \/ x.n = 0 THEN 0 ELSE x.n

----------------------------------------------------------------------------
(* The render: App.tsx lines 27-51 *)

SIZE_MULTIPLIER ==
    ("studio" :> 100) @@ ("1br" :> 140) @@ ("2br" :> 190) @@ ("3br" :> 260)

sizeMultiplier(v) == SIZE_MULTIPLIER[v.homeSize]

\* (variant: the local base rate in both branches)
baseCostLocalRate(v) == Times(Num(400), sizeMultiplier(v))
baseCost(v) ==
    IF v.moveType = "local"
    THEN Times(Num(400), sizeMultiplier(v))
    ELSE Times(Num(1200), sizeMultiplier(v))

\* (variant: the product truncated in place of rounded)
distanceCostTrunc(v) ==
    IF v.moveType = "local"
    THEN MathRoundFloor(Times(Num(v.distance), Num(2)))
    ELSE MathRoundFloor(Times(Num(v.distance), 75))
\* (variant: Math.abs(values.distance) in place of values.distance)
distanceCostAbs(v) ==
    LET d == IF v.distance < 0 THEN -v.distance ELSE v.distance
    IN  IF v.moveType = "local"
        THEN MathRound(Times(Num(d), Num(2)))
        ELSE MathRound(Times(Num(d), 75))
distanceCost(v) ==
    IF v.moveType = "local"
    THEN MathRound(Times(Num(v.distance), Num(2)))
    ELSE MathRound(Times(Num(v.distance), 75))

sizeCost(v) == MathRound(baseCost(v))

\* (variant: the size multiplier left out)
packingCostFlat(v) == IF v.packingServices THEN MathRound(Num(300)) ELSE 0
packingCost(v) ==
    IF v.packingServices THEN MathRound(Times(Num(300), sizeMultiplier(v))) ELSE 0

storageCost(v) == IF v.storageNeeded THEN 250 ELSE 0

\* (variant: storageCost left out of the sum)
totalEstimateNoStorage(size, dist, pack, store) == size + dist + pack
totalEstimate(size, dist, pack, store) == size + dist + pack + store

lowEstimate(total) == MathRound(Times(Num(total), 80))
highEstimate(total) == MathRound(Times(Num(total), 130))

serviceAddons(pack, store) == pack + store

\* what one render of App shows for the form values v: each constant of the
\* function body is computed once, from v and the constants before it
App(v) ==
    LET size  == sizeCost(v)
        dist  == distanceCost(v)
        pack  == packingCost(v)
        store == storageCost(v)
        total == totalEstimate(size, dist, pack, store)
    IN  [ sizeCost      |-> size,
          distanceCost  |-> dist,
          packingCost   |-> pack,
          storageCost   |-> store,
          totalEstimate |-> total,
          lowEstimate   |-> lowEstimate(total),
          highEstimate  |-> highEstimate(total),
          serviceAddons |-> serviceAddons(pack, store) ]

----------------------------------------------------------------------------
(* The form: state, handlers *)

DigitChar(d) ==
    CASE d = 0 -> "0" [] d = 1 -> "1" [] d = 2 -> "2" [] d = 3 -> "3"
      [] d = 4 -> "4" [] d = 5 -> "5" [] d = 6 -> "6" [] d = 7 -> "7"
      [] d = 8 -> "8" [] d = 9 -> "9"

\* String(n) for a natural number n
RECURSIVE NatText(_)
NatText(n) ==
    IF n < 10 THEN <<DigitChar(n)>>
    ELSE Append(NatText(n \div 10), DigitChar(n % 10))

\* String(n) for an integer n
NumberText(n) == IF n < 0 THEN <<"-">> \o NatText(-n) ELSE NatText(n)

\* value={values.distance || ''}: the text the distance input is given
distanceValue(v) == IF v.distance = 0 THEN <<>> ELSE NumberText(v.distance)

InitialValues ==
    [ distance |-> 50, homeSize |-> "2br", moveType |-> "local",
      packingServices |-> FALSE, storageNeeded |-> FALSE ]

\* distanceText is the text of the distance input: what the first render
\* gives it, then e.target.value of its latest change event
Init ==
    /\ values = InitialValues
    /\ rendered = App(values)
    /\ distanceText = distanceValue(values)

\* setValues(prev => ({...prev, [field]: value})), and the render it causes
\* (variant: the render reads the values of before the change)
handleChangeStale(field, value) ==
    /\ values' = [values EXCEPT ![field] = value]
    /\ rendered' = App(values)
handleChange(field, value) ==
    /\ values' = [values EXCEPT ![field] = value]
    /\ rendered' = App(values')

ChangeDistance ==
    \E text \in Texts :
        /\ distanceText' = text
        /\ handleChange("distance", OrZero(parseInt(text)))

ChangeMoveType ==
    \E v \in MoveTypes \ {values.moveType} :
        /\ handleChange("moveType", v)
        /\ UNCHANGED distanceText

ChangeHomeSize ==
    \E v \in HomeSizes \ {values.homeSize} :
        /\ handleChange("homeSize", v)
        /\ UNCHANGED distanceText

ChangePackingServices ==
    /\ handleChange("packingServices", ~values.packingServices)
    /\ UNCHANGED distanceText

ChangeStorageNeeded ==
    /\ handleChange("storageNeeded", ~values.storageNeeded)
    /\ UNCHANGED distanceText

\* the button has no handler
ClickEstimateCost == UNCHANGED vars

Next ==
    \/ ChangeDistance
    \/ ChangeMoveType
    \/ ChangeHomeSize
    \/ ChangePackingServices
    \/ ChangeStorageNeeded
    \/ ClickEstimateCost

Spec == Init /\ [][Next]_vars

----------------------------------------------------------------------------
(* The estimate over the declared input range: the form in any state with  *)
(* a distance in 0..MaxDistance, and the changes that keep the distance    *)

ValidInputs ==
    [ distance : 0..MaxDistance, homeSize : HomeSizes, moveType : MoveTypes,
      packingServices : BOOLEAN, storageNeeded : BOOLEAN ]

InitValid ==
    /\ values \in ValidInputs
    /\ rendered = App(values)
    /\ distanceText = distanceValue(values)

NextValid ==
    \/ ChangeMoveType
    \/ ChangeHomeSize
    \/ ChangePackingServices
    \/ ChangeStorageNeeded
    \/ ClickEstimateCost

SpecValid == InitValid /\ [][NextValid]_vars

----------------------------------------------------------------------------
(* Reference arithmetic of the properties below *)

\* the rational n / d (d > 0) rounded to the nearest integer, a tie going up
RoundHalfUp(n, d) == (2 * n + d) \div (2 * d)

\* ten times the size factor of each home size
FactorTimes10 ==
    ("studio" :> 10) @@ ("1br" :> 14) @@ ("2br" :> 19) @@ ("3br" :> 26)

\* the price of packing services for each home size
PackingPrice ==
    ("studio" :> 300) @@ ("1br" :> 420) @@ ("2br" :> 570) @@ ("3br" :> 780)

Fields == {"distance", "homeSize", "moveType", "packingServices", "storageNeeded"}

Money ==
    { rendered.sizeCost, rendered.distanceCost, rendered.packingCost,
      rendered.storageCost, rendered.totalEstimate, rendered.lowEstimate,
      rendered.highEstimate, rendered.serviceAddons }

----------------------------------------------------------------------------
(* C1: for every input with a distance in 0..3000, the rendered breakdown  *)
(* is the reference algorithm with each rounding applied step by step,     *)
(* half up: base = round(400 m) or round(1200 m), distance cost =          *)
(* round(2 d) or round(0.75 d), packing = round(300 m) or 0, storage = 250 *)
(* or 0, add-ons = packing + storage.                                      *)
C1_StepwiseReference ==
    LET m10 == FactorTimes10[values.homeSize]
        d   == values.distance
    IN  /\ values.distance \in 0..MaxDistance
        /\ IF values.moveType = "local"
           THEN /\ rendered.sizeCost = RoundHalfUp(400 * m10, 10)
                /\ rendered.distanceCost = RoundHalfUp(2 * d, 1)
           ELSE /\ rendered.sizeCost = RoundHalfUp(1200 * m10, 10)
                /\ rendered.distanceCost = RoundHalfUp(3 * d, 4)
        /\ rendered.packingCost =
              IF values.packingServices THEN RoundHalfUp(300 * m10, 10) ELSE 0
        /\ rendered.storageCost = IF values.storageNeeded THEN 250 ELSE 0
        /\ rendered.serviceAddons = rendered.packingCost + rendered.storageCost

\* a long-distance estimate whose distance cost is a tie (751.5), with packing
C1_Witness ==
    /\ values.moveType = "longDistance"
    /\ values.distance = 1002
    /\ values.homeSize = "1br"
    /\ values.packingServices
    /\ rendered.distanceCost = 752
    /\ rendered.sizeCost = 1680
    /\ rendered.packingCost = 420

(* C2: the total is the sum of the four rendered components, the base one  *)
(* being the rounded sizeCost.                                             *)
C2_TotalIsSum ==
    rendered.totalEstimate =
        rendered.sizeCost + rendered.distanceCost
            + rendered.packingCost + rendered.storageCost

\* an estimate with all four components positive
C2_Witness ==
    /\ values.packingServices
    /\ values.storageNeeded
    /\ values.distance = 2999
    /\ rendered.sizeCost > 0
    /\ rendered.distanceCost > 0
    /\ rendered.packingCost > 0
    /\ rendered.storageCost = 250

(* C3: for every input with a distance in 0..3000, low = round(0.8 total), *)
(* high = round(1.3 total) and low <= total <= high.                       *)
C3_Range ==
    /\ rendered.lowEstimate = RoundHalfUp(8 * rendered.totalEstimate, 10)
    /\ rendered.highEstimate = RoundHalfUp(13 * rendered.totalEstimate, 10)
    /\ rendered.lowEstimate <= rendered.totalEstimate
    /\ rendered.totalEstimate <= rendered.highEstimate

\* a total of 1275, whose high end is a tie (1657.5)
C3_Witness ==
    /\ values.distance = 100
    /\ values.moveType = "longDistance"
    /\ rendered.totalEstimate = 1275
    /\ rendered.lowEstimate = 1020
    /\ rendered.highEstimate = 1658

(* C4: in every state the form reaches, every monetary field of the        *)
(* rendered breakdown is a non-negative integer.                           *)
C4_NonNegativeMoney == \A x \in Money : x \in Int /\ x >= 0

(* C5: with the other four fields fixed, switching packingServices on adds *)
(* exactly the packing price of the home size (300, 420, 570, 780) to the  *)
(* total, switching storageNeeded on adds exactly 250, and neither changes *)
(* any other cost component.                                               *)
SwitchedOn(f) ==
    /\ ~values[f]
    /\ values'[f]
    /\ \A g \in Fields \ {f} : values'[g] = values[g]

C5_ToggleAddsItsCost ==
    [][ /\ SwitchedOn("packingServices") =>
            /\ rendered'.totalEstimate =
                   rendered.totalEstimate + PackingPrice[values.homeSize]
            /\ rendered'.packingCost = PackingPrice[values.homeSize]
            /\ rendered'.sizeCost = rendered.sizeCost
            /\ rendered'.distanceCost = rendered.distanceCost
            /\ rendered'.storageCost = rendered.storageCost
        /\ SwitchedOn("storageNeeded") =>
            /\ rendered'.totalEstimate = rendered.totalEstimate + 250
            /\ rendered'.storageCost = 250
            /\ rendered'.sizeCost = rendered.sizeCost
            /\ rendered'.distanceCost = rendered.distanceCost
            /\ rendered'.packingCost = rendered.packingCost
      ]_vars

\* both add-ons switched on for a 3+ bedroom long-distance move
C5_Witness ==
    /\ values.homeSize = "3br"
    /\ values.moveType = "longDistance"
    /\ values.packingServices
    /\ values.storageNeeded
    /\ rendered.packingCost = 780
    /\ rendered.storageCost = 250
    /\ rendered.serviceAddons = 1030

(* C6: with the other four fields fixed, a distance that does not decrease *)
(* decreases neither the distance cost nor the total.                      *)
C6_MonotoneInDistance ==
    [][ ( /\ values'.distance >= values.distance
          /\ \A g \in Fields \ {"distance"} : values'[g] = values[g] )
        => /\ rendered'.distanceCost >= rendered.distanceCost
           /\ rendered'.totalEstimate >= rendered.totalEstimate
      ]_vars

\* a long-distance estimate for 550 miles, entered over the initial 50 miles:
\* 412.5 rounds to 413
C6_Witness ==
    /\ values.moveType = "longDistance"
    /\ distanceText = <<"5", "5", "0">>
    /\ values.distance = 550
    /\ rendered.distanceCost = 413

(* C7: the form starts in scenario A, which renders 760, 100, 0, 0, total  *)
(* 860, range 688 to 1118, add-ons 0; scenario B renders 3120, 750, 780,   *)
(* 250, total 4900, range 3920 to 6370, add-ons 1030.                      *)
ScenarioA ==
    [ distance |-> 50, homeSize |-> "2br", moveType |-> "local",
      packingServices |-> FALSE, storageNeeded |-> FALSE ]

ScenarioB ==
    [ distance |-> 1000, homeSize |-> "3br", moveType |-> "longDistance",
      packingServices |-> TRUE, storageNeeded |-> TRUE ]

C7_Scenarios ==
    /\ InitialValues = ScenarioA
    /\ values = ScenarioA =>
          rendered = [ sizeCost |-> 760, distanceCost |-> 100, packingCost |-> 0,
                       storageCost |-> 0, totalEstimate |-> 860,
                       lowEstimate |-> 688, highEstimate |-> 1118,
                       serviceAddons |-> 0 ]
    /\ values = ScenarioB =>
          rendered = [ sizeCost |-> 3120, distanceCost |-> 750,
                       packingCost |-> 780, storageCost |-> 250,
                       totalEstimate |-> 4900, lowEstimate |-> 3920,
                       highEstimate |-> 6370, serviceAddons |-> 1030 ]

C7_Witness ==
    /\ values = ScenarioB
    /\ rendered.totalEstimate = 4900

(* C8: a distance change never rejects or clamps: a text that is a decimal *)
(* integer is stored as that integer, a breakdown of integers is rendered  *)
(* for it, and a negative distance d renders the negative distance cost    *)
(* round(2 d) (local) or round(0.75 d) (long distance).                    *)
IsDecimalInteger(t) ==
    LET digits == IF t # <<>> /\ Head(t) = "-" THEN Tail(t) ELSE t
    IN  /\ digits # <<>>
        /\ \A i \in 1..Len(digits) : digits[i] \in Digits
        /\ \/ Head(digits) # "0"
           \/ t = <<"0">>

C8_NoClampNoReject ==
    /\ IsDecimalInteger(distanceText) => NumberText(values.distance) = distanceText
    /\ \A x \in Money : x \in Int
    /\ values.distance < 0 =>
          /\ rendered.distanceCost < 0
          /\ rendered.distanceCost =
                IF values.moveType = "local"
                THEN RoundHalfUp(2 * values.distance, 1)
                ELSE RoundHalfUp(3 * values.distance, 4)

\* "-50" entered for a long-distance move: -37.5 rounds to -37
C8_Witness ==
    /\ distanceText = <<"-", "5", "0">>
    /\ values.distance = -50
    /\ values.moveType = "longDistance"
    /\ rendered.distanceCost = -37

(* C9: after any sequence of changes the rendered breakdown is the         *)
(* estimate of the current five field values and of nothing else, the      *)
(* button never having been needed.                                        *)
C9_RenderedIsCurrent == rendered = App(values)

\* every field changed at least once since the start
C9_Witness ==
    /\ \A f \in Fields : values[f] # InitialValues[f]
    /\ rendered # App(InitialValues)

(* C10: a distance text that is empty or starts with no integer stores     *)
(* distance 0; the distance is always an integer; distance 0 costs 0 and   *)
(* leaves the total at base plus add-ons, 400 for a local studio move with *)
(* no add-ons.                                                             *)
StartsWithInteger(t) ==
    \/ t # <<>> /\ Head(t) \in Digits
    \/ Len(t) >= 2 /\ Head(t) = "-" /\ t[2] \in Digits

C10_UnparsableIsZero ==
    /\ values.distance \in Int
    /\ ~StartsWithInteger(distanceText) => values.distance = 0
    /\ values.distance = 0 =>
          /\ rendered.distanceCost = 0
          /\ rendered.totalEstimate = rendered.sizeCost + rendered.serviceAddons
    /\ ( /\ values.distance = 0
         /\ values.homeSize = "studio"
         /\ values.moveType = "local"
         /\ ~values.packingServices
         /\ ~values.storageNeeded ) => rendered.totalEstimate = 400

\* "-" entered, for a local studio move with no add-ons
C10_Witness ==
    /\ distanceText = <<"-">>
    /\ values.distance = 0
    /\ values.homeSize = "studio"
    /\ values.moveType = "local"
    /\ ~values.packingServices
    /\ ~values.storageNeeded
    /\ rendered.totalEstimate = 400

====
